---- MODULE Spec2Model ----
(***************************************************************************)
(* Merge pipeline of web_app.py: multi-encoding CSV reading, column        *)
(* normalisation, header preservation and the per-extension merge loop.    *)
(*                                                                         *)
(* A file's bytes are represented by the grid of cells they hold (a        *)
(* sequence of rows, rows may differ in width), the set of encodings that  *)
(* decode them and, for a workbook, whether the archive is readable.       *)
(* pandas' read_csv / read_excel / dropna / reindex / concat are modelled  *)
(* by what they do to such grids.                                          *)
(***************************************************************************)
EXTENDS Integers, Sequences, FiniteSets, TLC

\* ------------------------------------------------------------------ bounds
\* Rows held by one file
MaxRows == 2

\* ------------------------------------------------------- program constants
\* GBK is tried before UTF-8
SUPPORTED_ENCODINGS_gbk_first == <<"gbk", "utf-8", "gb2312", "utf-8-sig", "latin1">>
SUPPORTED_ENCODINGS == <<"utf-8", "gbk", "gb2312", "utf-8-sig", "latin1">>
SUPPORTED_FORMATS == [e \in {".xlsx", ".csv"} |-> IF e = ".xlsx" THEN "Excel" ELSE "CSV"]
OUTPUT_PREFIX == "merged_"

\* Iteration order of the dict the caller builds: {".csv": [], ".xlsx": []}
GroupOrder == <<".csv", ".xlsx">>

\* ------------------------------------------------------------ small helpers
Min2(a, b) == IF a < b THEN a ELSE b
Take(s, n) == SubSeq(s, 1, Min2(n, Len(s)))
Drop(s, n) == SubSeq(s, n + 1, Len(s))
SeqRange(s) == {s[i] : i \in DOMAIN s}
IndexOf(s, x) == CHOOSE i \in DOMAIN s : s[i] = x
MaxOf(S) == CHOOSE m \in S : \A x \in S : x <= m

RECURSIVE Flatten(_)
Flatten(ss) == IF ss = <<>> THEN <<>> ELSE Head(ss) \o Flatten(Tail(ss))

RECURSIVE SumSeq(_)
SumSeq(s) == IF s = <<>> THEN 0 ELSE Head(s) + SumSeq(Tail(s))

\* ------------------------------------------------------------- cell values
\* None / NaN: the absent cell.
Null == 0
\* An opaque scalar; its identity records where it was written
\* (file tag, line, column).
Value(tag, r, c) == tag * 100 + r * 10 + c
\* History of a row: the file and the line it was read from.
Origin(tag, r) == tag * 10 + r
OriginFile(src) == src \div 10
OriginLine(src) == src % 10

\* A row of a file: its cells and (history) the file and line it came from.
FileRow(tag, r, kind) ==
    [cells |-> [c \in 1..kind.w |-> IF kind.fill = "data" THEN Value(tag, r, c) ELSE Null],
     src |-> Origin(tag, r)]

\* The grid held by a file's bytes.
Grid(content) == [r \in 1..Len(content.kinds) |-> FileRow(content.tag, r, content.kinds[r])]

\* ------------------------------------------------------------- data frames
\* range(n) as column labels 0..n-1
RangeLabels(n) == [i \in 1..n |-> i - 1]
\* pd.DataFrame()
EmptyFrame == [columns |-> <<>>, rows |-> <<>>]
NoneValue == [none |-> TRUE]
IsNone(x) == "none" \in DOMAIN x
\* df.empty
IsEmptyFrame(df) == Len(df.columns) = 0 \/ Len(df.rows) = 0
PadRow(row, w) == [row EXCEPT !.cells = [c \in 1..w |-> IF c <= Len(row.cells) THEN row.cells[c] ELSE Null]]
IsBlankRow(row) == \A c \in DOMAIN row.cells : row.cells[c] = Null

Ok(df) == [ok |-> TRUE, df |-> df]
Raise(type, detail) == [ok |-> FALSE, err |-> [type |-> type, detail |-> detail]]

\* nrows keyword: <<>> when absent, <<n>> when given
NoLimit == <<>>
Limit(kw, s) == IF kw.nrows = NoLimit THEN s ELSE Take(s, kw.nrows[1])

\* pd.read_csv(io.BytesIO(content), encoding=encoding, header=None, **kw)
\* (C parser: the first remaining line fixes the width; a shorter line is
\* padded, a longer one is an error; nothing left to parse is an error.)
pd_read_csv(content, encoding, kw) ==
    LET lines == Drop(Grid(content), kw.skiprows)
        taken == Limit(kw, lines)
        width == Len(lines[1].cells)
    IN  IF encoding \notin content.dec THEN Raise("UnicodeDecodeError", encoding)
        ELSE IF lines = <<>> THEN Raise("EmptyDataError", encoding)
        ELSE IF \E i \in DOMAIN taken : Len(taken[i].cells) > width
             THEN Raise("ParserError", encoding)
        ELSE [ok |-> TRUE,
              df |-> [columns |-> RangeLabels(width),
                      rows |-> [i \in DOMAIN taken |-> PadRow(taken[i], width)]],
              encoding |-> encoding]

\* _read_csv_with_encoding: the retry loop from encoding number i on
RECURSIVE csv_attempts(_, _, _, _)
csv_attempts(content, kw, i, last_error) ==
    IF i > Len(SUPPORTED_ENCODINGS)
    THEN Raise("RuntimeError", last_error)
    ELSE LET r == pd_read_csv(content, SUPPORTED_ENCODINGS[i], kw)
         IN  IF r.ok THEN r ELSE csv_attempts(content, kw, i + 1, r.err)

read_csv_with_encoding(content, kw) == csv_attempts(content, kw, 1, NoneValue)

\* Cells of a worksheet row with the trailing empty cells removed
TrimTrailing(cells) ==
    LET used == {c \in DOMAIN cells : cells[c] # Null}
    IN  IF used = {} THEN <<>> ELSE SubSeq(cells, 1, MaxOf(used))

\* The openpyxl reader: reads the rows needed, drops trailing empty rows and
\* pads every row to the widest one read.
get_sheet_data(grid, needed) ==
    LET read == IF needed = NoLimit THEN grid ELSE Take(grid, needed[1])
        trimmed == [i \in DOMAIN read |-> [read[i] EXCEPT !.cells = TrimTrailing(@)]]
        used == {i \in DOMAIN trimmed : trimmed[i].cells # <<>>}
        data == IF used = {} THEN <<>> ELSE Take(trimmed, MaxOf(used))
        max_width == MaxOf({Len(data[i].cells) : i \in DOMAIN data})
    IN  [i \in DOMAIN data |-> PadRow(data[i], max_width)]

\* pd.read_excel(io.BytesIO(content), header=None, **kw)
pd_read_excel(content, kw) ==
    IF content.corrupt THEN Raise("BadZipFile", content.tag)
    ELSE LET needed == IF kw.nrows = NoLimit THEN NoLimit ELSE <<kw.skiprows + kw.nrows[1]>>
             data == get_sheet_data(Grid(content), needed)
             lines == Limit(kw, Drop(data, kw.skiprows))
         IN  IF lines = <<>> THEN Ok(EmptyFrame)
             ELSE Ok([columns |-> RangeLabels(Len(data[1].cells)), rows |-> lines])

\* The fully-empty rows are kept
dropna_nothing(df) == df
\* df.dropna(how="all")
dropna_all(df) == [df EXCEPT !.rows = SelectSeq(@, LAMBDA row : ~IsBlankRow(row))]

\* The trailing columns are kept
iloc_all_columns(df, n) == df
\* df.iloc[:, :n]
iloc_columns(df, n) ==
    [columns |-> Take(df.columns, n),
     rows |-> [i \in DOMAIN df.rows |-> [df.rows[i] EXCEPT !.cells = Take(@, n)]]]

\* df[label] = None : overwrite the column if the label exists, else append it
set_column_none(df, label) ==
    IF label \in SeqRange(df.columns)
    THEN [df EXCEPT !.rows = [i \in DOMAIN df.rows |->
              [df.rows[i] EXCEPT !.cells[IndexOf(df.columns, label)] = Null]]]
    ELSE [columns |-> Append(df.columns, label),
          rows |-> [i \in DOMAIN df.rows |-> [df.rows[i] EXCEPT !.cells = Append(@, Null)]]]

\* for i in range(current_cols, max_columns): df[i] = None
RECURSIVE pad_columns(_, _, _)
pad_columns(df, i, max_columns) ==
    IF i >= max_columns THEN df ELSE pad_columns(set_column_none(df, i), i + 1, max_columns)

\* df.reindex(columns=range(n))
reindex_columns(df, n) ==
    [columns |-> RangeLabels(n),
     rows |-> [i \in DOMAIN df.rows |-> [df.rows[i] EXCEPT !.cells =
                 [j \in 1..n |-> IF (j - 1) \in SeqRange(df.columns)
                                 THEN df.rows[i].cells[IndexOf(df.columns, j - 1)]
                                 ELSE Null]]]]

\* Column labels of a concatenation: first appearance order
RECURSIVE UnionLabels(_, _)
UnionLabels(acc, labels) ==
    IF labels = <<>> THEN acc
    ELSE UnionLabels(IF Head(labels) \in SeqRange(acc) THEN acc ELSE Append(acc, Head(labels)),
                     Tail(labels))

\* pd.concat(frames, ignore_index=True)
pd_concat(frames) ==
    LET cols == UnionLabels(<<>>, Flatten([i \in DOMAIN frames |-> frames[i].columns]))
        Relaid(df) == [i \in DOMAIN df.rows |-> [df.rows[i] EXCEPT !.cells =
                         [j \in DOMAIN cols |-> IF cols[j] \in SeqRange(df.columns)
                                                THEN df.rows[i].cells[IndexOf(df.columns, cols[j])]
                                                ELSE Null]]]
    IN  [columns |-> cols, rows |-> Flatten([i \in DOMAIN frames |-> Relaid(frames[i])])]

\* ------------------------------------------------------- normalize_columns
\* One pass of the loop body on a table that is kept
normalize_one(df0, base_columns) ==
    LET max_columns == Len(base_columns)
        df == dropna_all(df0)
        current_cols == Len(df.columns)
        sized == IF current_cols > max_columns THEN iloc_columns(df, max_columns)
                 ELSE IF current_cols < max_columns THEN pad_columns(df, current_cols, max_columns)
                 ELSE df
    IN  [sized EXCEPT !.columns = base_columns]

\* Whether the loop body skips the table
is_skipped(df) ==
    IF IsNone(df) THEN TRUE
    ELSE IF IsEmptyFrame(df) THEN TRUE
    ELSE IsEmptyFrame(dropna_all(df))

RECURSIVE normalize_columns(_, _)
normalize_columns(dataframes, base_columns) ==
    IF dataframes = <<>> THEN <<>>
    ELSE LET df == Head(dataframes)
             rest == normalize_columns(Tail(dataframes), base_columns)
         IN  IF is_skipped(df) THEN rest ELSE <<normalize_one(df, base_columns)>> \o rest

\* ------------------------------------------------ combine_data_with_header
combine_data_with_header(header_df, data_df, base_columns) ==
    LET header == IF ~IsNone(header_df) /\ ~IsEmptyFrame(header_df)
                  THEN [reindex_columns(header_df, Len(base_columns)) EXCEPT !.columns = base_columns]
                  ELSE header_df
    IN  IF ~IsNone(header) THEN pd_concat(<<header, data_df>>) ELSE data_df

\* ---------------------------------------------------------------- readers
IsCsv(file) == file.suffix = ".csv"
IsXlsx(file) == file.suffix = ".xlsx"

read_header_from_upload(file, skip_rows) ==
    IF skip_rows = 0 THEN Ok(EmptyFrame)
    ELSE IF IsCsv(file)
         THEN read_csv_with_encoding(file.content, [skiprows |-> 0, nrows |-> <<skip_rows>>])
    ELSE IF IsXlsx(file)
         THEN pd_read_excel(file.content, [skiprows |-> 0, nrows |-> <<skip_rows>>])
    ELSE Raise("ValueError", "unsupported file type")

read_data_from_upload(file, skip_rows) ==
    IF IsCsv(file)
    THEN read_csv_with_encoding(file.content, [skiprows |-> skip_rows, nrows |-> NoLimit])
    ELSE IF IsXlsx(file)
         THEN pd_read_excel(file.content, [skiprows |-> skip_rows, nrows |-> NoLimit])
    ELSE Raise("ValueError", "unsupported file type")

get_base_columns_from_first_file(file, skip_rows) ==
    LET probe == IF IsCsv(file)
                 THEN read_csv_with_encoding(file.content, [skiprows |-> skip_rows, nrows |-> <<1>>])
                 ELSE IF IsXlsx(file)
                      THEN pd_read_excel(file.content, [skiprows |-> skip_rows, nrows |-> <<1>>])
                 ELSE Raise("ValueError", "unsupported file type")
    IN  IF probe.ok THEN [ok |-> TRUE, columns |-> RangeLabels(Len(probe.df.columns))]
        ELSE probe

\* ---------------------------------------------------------------- writers
CellLines(df) == [i \in DOMAIN df.rows |-> df.rows[i].cells]

write_csv_to_bytes(df) ==
    [format |-> "csv", encoding |-> "utf-8-sig", lines |-> CellLines(df)]

\* The workbook stores its creation time (docProps/core.xml) next to the sheet.
write_excel_to_bytes(df, skip_rows, created) ==
    [format |-> "xlsx", sheet |-> "Sheet1", lines |-> CellLines(df),
     bold_row |-> IF skip_rows > 0 THEN <<skip_rows>> ELSE <<>>,
     created |-> created]

generate_output_filename(file_count, file_format, skip_rows, timestamp) ==
    [prefix |-> OUTPUT_PREFIX, count |-> file_count,
     format_name |-> IF file_format \in DOMAIN SUPPORTED_FORMATS
                     THEN SUPPORTED_FORMATS[file_format] ELSE file_format,
     skipped |-> skip_rows, timestamp |-> timestamp, extension |-> file_format]

\* ------------------------------------------------------------ merge a group
\* sorted(files, key=lambda x: x[0]) : stable, ascending by name
RECURSIVE InsertByName(_, _)
InsertByName(sorted, f) ==
    IF sorted = <<>> THEN <<f>>
    ELSE IF f.name < Head(sorted).name THEN <<f>> \o sorted
    ELSE <<Head(sorted)>> \o InsertByName(Tail(sorted), f)

\* The files are taken in the order of the upload
unsorted(files) == files
RECURSIVE sorted_by_name(_)
sorted_by_name(files) ==
    IF files = <<>> THEN <<>>
    ELSE InsertByName(sorted_by_name(SubSeq(files, 1, Len(files) - 1)), files[Len(files)])

\* The reads of step 3, in file order
read_all(files, skip_rows) == [i \in DOMAIN files |-> read_data_from_upload(files[i], skip_rows)]

\* One iteration of the loop body for a non-empty group, step by step; each
\* step hands the values computed so far to the next one. `now` is the clock
\* read while the output is produced.

\* 6) output: the result entry, and the locals of the iteration
merge_output(ext, files, skip_rows, now, base_columns, header_df, combined, final_df) ==
    [kind |-> "result",
     entry |-> [status |-> "ok",
                file_name |-> generate_output_filename(Len(files), ext, skip_rows, now),
                bytes |-> IF ext = ".csv" THEN write_csv_to_bytes(final_df)
                          ELSE write_excel_to_bytes(final_df, skip_rows, now),
                preview |-> Take(CellLines(final_df), 10),
                rows |-> Len(combined.rows),
                files |-> [i \in DOMAIN files |-> files[i].name],
                last_header_row |-> IF skip_rows > 0 /\ ~IsEmptyFrame(header_df)
                                    THEN <<header_df.rows[Len(header_df.rows)].cells>>
                                    ELSE <<>>,
                base_columns_count |-> Len(base_columns)],
     locals |-> [base_columns |-> base_columns, header_df |-> header_df,
                 combined |-> combined, final_df |-> final_df]]

\* 5) final_df = combine_data_with_header(header_df, combined, base_columns)
merge_combine(ext, files, skip_rows, now, base_columns, header_df, combined) ==
    merge_output(ext, files, skip_rows, now, base_columns, header_df, combined,
                 combine_data_with_header(header_df, combined, base_columns))

\* 4) if not normalized: status empty; else combined = pd.concat(normalized)
merge_normalized(ext, files, skip_rows, now, base_columns, header_df, normalized) ==
    IF normalized = <<>>
    THEN [kind |-> "result",
          entry |-> [status |-> "empty",
                     message |-> <<"no valid data to merge", SUPPORTED_FORMATS[ext]>>]]
    ELSE merge_combine(ext, files, skip_rows, now, base_columns, header_df, pd_concat(normalized))

\* 3) the reads are done: the first failed read raises, else normalise
merge_reads(ext, files, skip_rows, now, base_columns, header_df, reads) ==
    IF \E i \in DOMAIN reads : ~reads[i].ok
    THEN [kind |-> "raise",
          err |-> reads[CHOOSE i \in DOMAIN reads :
                          ~reads[i].ok /\ \A j \in 1..(i - 1) : reads[j].ok].err]
    ELSE merge_normalized(ext, files, skip_rows, now, base_columns, header_df,
                          normalize_columns([i \in DOMAIN reads |-> reads[i].df], base_columns))

\* 2) header_df = read_header_from_upload(first_name, first_content, skip_rows)
merge_header(ext, files, skip_rows, now, base_columns, header) ==
    IF ~header.ok THEN [kind |-> "raise", err |-> header.err]
    ELSE merge_reads(ext, files, skip_rows, now, base_columns, header.df,
                     read_all(files, skip_rows))

\* 1) base_columns = get_base_columns_from_first_file(first_name, first_content, skip_rows)
merge_base(ext, files, skip_rows, now, base) ==
    IF ~base.ok THEN [kind |-> "raise", err |-> base.err]
    ELSE merge_header(ext, files, skip_rows, now, base.columns,
                      read_header_from_upload(files[1], skip_rows))

merge_sorted(ext, files, skip_rows, now) ==
    merge_base(ext, files, skip_rows, now, get_base_columns_from_first_file(files[1], skip_rows))

merge_group(ext, group, skip_rows, now) ==
    merge_sorted(ext, sorted_by_name(group), skip_rows, now)

\* ------------------------------------------------------------------ inputs
AllEncodings == SeqRange(SUPPORTED_ENCODINGS)
Exts == SeqRange(GroupOrder)
\* skip_rows leaves every file room for at least one data row
MaxSkip == MaxRows - 1

\* A line of a file: one field, two fields, or two empty fields
Narrow == [w |-> 1, fill |-> "data"]
Wide == [w |-> 2, fill |-> "data"]
Blank == [w |-> 2, fill |-> "blank"]
Shapes == UNION {[1..n -> {Narrow, Wide, Blank}] : n \in 0..MaxRows}
\* Files without empty lines
PlainShapes == UNION {[1..n -> {Narrow, Wide}] : n \in 0..MaxRows}
\* Files with room for a title line, a line of column names and data
TitledShapes == UNION {[1..n -> {Narrow, Wide}] : n \in 0..(MaxRows + 1)}

\* What a file of a group can hold, before it is given its place in the upload
Payloads(ext, shapes) ==
    {[suffix |-> ext, kinds |-> k, corrupt |-> FALSE] : k \in shapes}
    \cup (IF ext = ".xlsx" THEN {[suffix |-> ext, kinds |-> <<>>, corrupt |-> TRUE]} ELSE {})

\* Bytes of plain ASCII text decode in every encoding
MakeFile(name, payload, tag) ==
    [name |-> name, suffix |-> payload.suffix,
     content |-> [tag |-> tag, kinds |-> payload.kinds, corrupt |-> payload.corrupt,
                  dec |-> AllEncodings]]

\* Uploads of one extension: no file, one file or two files; a name is the
\* rank (1 or 2) of the file name in the ascending order of names, so two
\* files may come in either order or share a name.
Groups(ext, shapes) ==
    UNION {{[p \in 1..n |-> MakeFile(names[p], payloads[p], p)] :
               names \in [1..n -> 1..2], payloads \in [1..n -> Payloads(ext, shapes)]} :
           n \in 0..2}

\* One-file uploads, including a file whose name has another extension
SmallGroups(ext) ==
    {<<>>} \cup {<<MakeFile(1, p, 1)>> : p \in Payloads(ext, Shapes)}
    \cup {<<MakeFile(1, [suffix |-> ".txt", kinds |-> <<>>, corrupt |-> FALSE], 1)>>}

\* Text as it is found in the wild: UTF-8 with or without signature decode
\* alike, GB2312 text is GBK text, Latin-1 decodes any bytes.
DecodableSets ==
    {D \in SUBSET AllEncodings :
        /\ "latin1" \in D
        /\ ("utf-8" \in D) = ("utf-8-sig" \in D)
        /\ ("gb2312" \in D) => ("gbk" \in D)}

\* The keyword arguments the three callers pass to _read_csv_with_encoding
CsvCalls ==
    {[skiprows |-> k, nrows |-> NoLimit] : k \in 0..MaxSkip}
    \cup {[skiprows |-> k, nrows |-> <<1>>] : k \in 0..MaxSkip}
    \cup {[skiprows |-> 0, nrows |-> <<k>>] : k \in 1..MaxSkip}

\* Tables handed to normalize_columns: a table as a reader returns it, with
\* no column, one column or three, each row full, empty, or empty but for its
\* last cell
FrameRow(tag, r, w, kind) ==
    [cells |-> [c \in 1..w |-> IF kind = "full" \/ (kind = "tail" /\ c = w)
                               THEN Value(tag, r, c) ELSE Null],
     src |-> Origin(tag, r)]
FrameRowKinds(w) == IF w <= 1 THEN {"full", "blank"} ELSE {"full", "blank", "tail"}
Frames(tag) ==
    {NoneValue} \cup
    UNION {UNION {{[columns |-> RangeLabels(w),
                    rows |-> [r \in 1..n |-> FrameRow(tag, r, w, kinds[r])]] :
                      kinds \in [1..n -> IF w = 0 THEN {"blank"} ELSE FrameRowKinds(w)]} :
                  n \in 0..MaxRows} :
           w \in {0, 1, 3}}
FrameLists == UNION {{[p \in 1..n |-> fs[p]] : fs \in [1..n -> Frames(1) \cup Frames(2)]} : n \in 0..2}

\* ------------------------------------------------------------------- state
VARIABLES
    grouped,    \* merge_uploaded_files: the argument grouped_files
    skip_rows,  \* merge_uploaded_files: the argument skip_rows
    now,        \* the clock datetime.now() reads
    pending,    \* the extensions the loop has still to visit
    results,    \* merge_uploaded_files: results
    locals,     \* per extension, the tables of its iteration (history)
    pc,         \* "loop", "returned", "raised"; "idle" outside a call
    raised,     \* the exception that left merge_uploaded_files
    history,    \* the completed earlier call, if any
    csv,        \* _read_csv_with_encoding: its arguments and loop state
    norm        \* normalize_columns: its arguments and loop state

vars == <<grouped, skip_rows, now, pending, results, locals, pc, raised, history, csv, norm>>

Idle == [pc |-> "idle"]
mergeVars == <<grouped, skip_rows, now, pending, results, locals, pc, raised, history>>

\* The state on entry of merge_uploaded_files(g, k)
Enter(g, k) ==
    /\ grouped = g
    /\ skip_rows = k
    /\ now = 1
    /\ pending = GroupOrder
    /\ results = <<>>
    /\ locals = <<>>
    /\ pc = "loop"
    /\ raised = NoneValue
    /\ history = <<>>
    /\ csv = Idle
    /\ norm = Idle

OneGroup(ext, g) == [e \in Exts |-> IF e = ext THEN g ELSE <<>>]

\* merge_uploaded_files is entered with the files of one extension
Init ==
    \E ext \in Exts : \E g \in Groups(ext, Shapes) : \E k \in 0..MaxSkip :
        Enter(OneGroup(ext, g), k)

\* merge_uploaded_files is entered with a file of each extension
InitMulti ==
    \E c \in SmallGroups(".csv") : \E x \in SmallGroups(".xlsx") : \E k \in 0..MaxSkip :
        Enter([e \in Exts |-> IF e = ".csv" THEN c ELSE x], k)

InLoop == pc = "loop" /\ pending # <<>>
CurrentExt == Head(pending)

\* if not files: continue
SkipEmptyGroup ==
    /\ InLoop
    /\ grouped[CurrentExt] = <<>>
    /\ pending' = Tail(pending)
    /\ UNCHANGED <<grouped, skip_rows, now, results, locals, pc, raised, history, csv, norm>>

\* An exception of a read leaves the function
GroupRaises ==
    /\ InLoop
    /\ grouped[CurrentExt] # <<>>
    /\ LET o == merge_group(CurrentExt, grouped[CurrentExt], skip_rows, now)
       IN  /\ o.kind = "raise"
           /\ raised' = o.err
    /\ pc' = "raised"
    /\ UNCHANGED <<grouped, skip_rows, now, pending, results, locals, history, csv, norm>>

\* if not normalized: results[ext] = {"status": "empty", ...}; continue
GroupEmpty ==
    /\ InLoop
    /\ grouped[CurrentExt] # <<>>
    /\ LET o == merge_group(CurrentExt, grouped[CurrentExt], skip_rows, now)
       IN  /\ o.kind = "result"
           /\ o.entry.status = "empty"
           /\ results' = (CurrentExt :> o.entry) @@ results
    /\ pending' = Tail(pending)
    /\ UNCHANGED <<grouped, skip_rows, now, locals, pc, raised, history, csv, norm>>

\* results[ext] = {"status": "ok", ...}
GroupOk ==
    /\ InLoop
    /\ grouped[CurrentExt] # <<>>
    /\ LET o == merge_group(CurrentExt, grouped[CurrentExt], skip_rows, now)
       IN  /\ o.kind = "result"
           /\ o.entry.status = "ok"
           /\ results' = (CurrentExt :> o.entry) @@ results
           /\ locals' = (CurrentExt :> o.locals) @@ locals
    /\ pending' = Tail(pending)
    /\ UNCHANGED <<grouped, skip_rows, now, pc, raised, history, csv, norm>>

\* return results
Return ==
    /\ pc = "loop"
    /\ pending = <<>>
    /\ pc' = "returned"
    /\ UNCHANGED <<grouped, skip_rows, now, pending, results, locals, raised, history, csv, norm>>

Next == SkipEmptyGroup \/ GroupRaises \/ GroupEmpty \/ GroupOk \/ Return

Spec == Init /\ [][Next]_vars
SpecMulti == InitMulti /\ [][Next]_vars

\* ------------------------------------------------------- a second invocation
\* The button is pressed again: merge_uploaded_files runs once more, on files
\* that were re-uploaded in another order or renamed.
Finished == pc \in {"returned", "raised"}
CallOutcome ==
    IF pc = "returned" THEN [kind |-> "returned", results |-> results, locals |-> locals]
    ELSE [kind |-> "raised", err |-> raised]

Orderings(n) == {p \in [1..n -> 1..n] : \A i, j \in 1..n : p[i] = p[j] => i = j}

Reenter(g, t, relation) ==
    /\ history' = <<[relation |-> relation, grouped |-> grouped, outcome |-> CallOutcome]>>
    /\ grouped' = g
    /\ now' = t
    /\ pending' = GroupOrder
    /\ results' = <<>>
    /\ locals' = <<>>
    /\ pc' = "loop"
    /\ raised' = NoneValue
    /\ UNCHANGED <<skip_rows, csv, norm>>

\* Same files, same names, listed in another order; at the same second or later
InvokeReordered ==
    /\ Finished
    /\ history = <<>>
    /\ \E e \in Exts : \E p \in Orderings(Len(grouped[e])) : \E t \in {now, now + 1} :
         /\ grouped[e] # <<>>
         /\ Reenter([grouped EXCEPT ![e] = [i \in DOMAIN @ |-> @[p[i]]]], t, "reordered")

\* Same files in the same order, under other names
InvokeRenamed ==
    /\ Finished
    /\ history = <<>>
    /\ \E e \in Exts : \E names \in [1..Len(grouped[e]) -> 1..2] :
         /\ grouped[e] # <<>>
         /\ Reenter([grouped EXCEPT ![e] = [i \in DOMAIN @ |-> [@[i] EXCEPT !.name = names[i]]]],
                    now, "renamed")

InitPlain ==
    \E ext \in Exts : \E g \in Groups(ext, PlainShapes) : \E k \in 0..MaxSkip :
        Enter(OneGroup(ext, g), k)

InitTitled ==
    \E ext \in Exts : \E g \in Groups(ext, TitledShapes) : \E k \in 0..MaxRows :
        Enter(OneGroup(ext, g), k)

NextReorder == Next \/ InvokeReordered
NextRename == Next \/ InvokeRenamed

SpecReorder == InitPlain /\ [][NextReorder]_vars
SpecRename == InitTitled /\ [][NextRename]_vars

\* ------------------------------------------------- _read_csv_with_encoding
\* One call of _read_csv_with_encoding(content, **kw): `i` is the position of
\* the for loop in SUPPORTED_ENCODINGS, `tried` the encodings attempted so far.
InitCsv ==
    /\ \E k \in Shapes : \E D \in DecodableSets : \E kw \in CsvCalls :
         csv = [pc |-> "loop",
                content |-> [tag |-> 1, kinds |-> k, corrupt |-> FALSE, dec |-> D],
                kw |-> kw, i |-> 1, last_error |-> NoneValue, tried |-> <<>>]
    /\ grouped = <<>> /\ skip_rows = 0 /\ now = 1 /\ pending = <<>> /\ results = <<>>
    /\ locals = <<>> /\ pc = "idle" /\ raised = NoneValue /\ history = <<>>
    /\ norm = Idle

CsvLooping == csv.pc = "loop" /\ csv.i <= Len(SUPPORTED_ENCODINGS)
CsvAttempt == pd_read_csv(csv.content, SUPPORTED_ENCODINGS[csv.i], csv.kw)

\* return pd.read_csv(...)
CsvReturns ==
    /\ CsvLooping
    /\ CsvAttempt.ok
    /\ csv' = [csv EXCEPT !.pc = "returned",
                          !.tried = Append(@, SUPPORTED_ENCODINGS[csv.i])]
                @@ [out |-> CsvAttempt]
    /\ UNCHANGED mergeVars
    /\ UNCHANGED norm

\* except Exception as e: last_error = e; continue
CsvAttemptFails ==
    /\ CsvLooping
    /\ ~CsvAttempt.ok
    /\ csv' = [csv EXCEPT !.i = @ + 1, !.last_error = CsvAttempt.err,
                          !.tried = Append(@, SUPPORTED_ENCODINGS[csv.i])]
    /\ UNCHANGED mergeVars
    /\ UNCHANGED norm

\* raise RuntimeError(f"... {last_error}")
CsvExhausted ==
    /\ csv.pc = "loop"
    /\ csv.i > Len(SUPPORTED_ENCODINGS)
    /\ csv' = [csv EXCEPT !.pc = "raised"] @@ [out |-> Raise("RuntimeError", csv.last_error)]
    /\ UNCHANGED mergeVars
    /\ UNCHANGED norm

NextCsv == CsvReturns \/ CsvAttemptFails \/ CsvExhausted
SpecCsv == InitCsv /\ [][NextCsv]_vars

\* --------------------------------------------------------- normalize_columns
\* One call of normalize_columns(dataframes, base_columns): `i` is the
\* position of the for loop in dataframes.
InitNorm ==
    /\ \E dfs \in FrameLists : \E n \in 0..3 :
         norm = [pc |-> "loop", dataframes |-> dfs, base_columns |-> RangeLabels(n),
                 i |-> 1, normalized |-> <<>>]
    /\ grouped = <<>> /\ skip_rows = 0 /\ now = 1 /\ pending = <<>> /\ results = <<>>
    /\ locals = <<>> /\ pc = "idle" /\ raised = NoneValue /\ history = <<>>
    /\ csv = Idle

NormLooping == norm.pc = "loop" /\ norm.i <= Len(norm.dataframes)

\* if df is None or df.empty: continue  (also after dropna)
NormSkips ==
    /\ NormLooping
    /\ is_skipped(norm.dataframes[norm.i])
    /\ norm' = [norm EXCEPT !.i = @ + 1]
    /\ UNCHANGED mergeVars
    /\ UNCHANGED csv

\* normalized.append(df)
NormAppends ==
    /\ NormLooping
    /\ ~is_skipped(norm.dataframes[norm.i])
    /\ norm' = [norm EXCEPT !.i = @ + 1,
                            !.normalized = Append(@, normalize_one(norm.dataframes[norm.i],
                                                                   norm.base_columns))]
    /\ UNCHANGED mergeVars
    /\ UNCHANGED csv

\* return normalized
NormReturns ==
    /\ norm.pc = "loop"
    /\ norm.i > Len(norm.dataframes)
    /\ norm' = [norm EXCEPT !.pc = "returned"]
    /\ UNCHANGED mergeVars
    /\ UNCHANGED csv

NextNorm == NormSkips \/ NormAppends \/ NormReturns
SpecNorm == InitNorm /\ [][NextNorm]_vars

\* ------------------------------------------------------------ properties
Processed(ext) == ext \in DOMAIN results
EndedOk(ext) == Processed(ext) /\ results[ext].status = "ok"
FileOfTag(ext, tag) == CHOOSE f \in SeqRange(grouped[ext]) : f.content.tag = tag
FirstSorted(ext) == sorted_by_name(grouped[ext])[1]
\* The lines of a file after the first k that are not fully empty
DataLines(file, k) ==
    {r \in (k + 1)..Len(file.content.kinds) : file.content.kinds[r].fill = "data"}
Resized(cells, n) == [c \in 1..n |-> IF c <= Len(cells) THEN cells[c] ELSE Null]
WellFormed(file) == ~file.content.corrupt /\ file.suffix \in Exts
GroupResult(ext) == merge_group(ext, grouped[ext], skip_rows, now)

\* C1: when several groups are non-empty and the processing of one of them
\* fails, every other group whose own processing does not fail still gets an
\* entry of status ok or empty in the result map the call returns.
OtherGroupsComplete ==
    (Finished /\ (\A e \in Exts : grouped[e] # <<>>)
              /\ (\E e \in Exts : GroupResult(e).kind = "raise"))
    => \A e \in Exts :
           GroupResult(e).kind = "result"
           => /\ pc = "returned"
              /\ Processed(e)
              /\ results[e].status \in {"ok", "empty"}

\* C2: each table normalize_columns returns has exactly len(base_columns)
\* columns, a wider input truncated and a narrower one padded with nulls, and
\* the returned tables are, in input order, the inputs that are not None and
\* keep a row once the fully-empty rows are removed.
NormKept ==
    SelectSeq([i \in DOMAIN norm.dataframes |-> i],
              LAMBDA i : /\ ~IsNone(norm.dataframes[i])
                         /\ \E r \in DOMAIN norm.dataframes[i].rows :
                              \E c \in DOMAIN norm.dataframes[i].rows[r].cells :
                                  norm.dataframes[i].rows[r].cells[c] # Null)
NormExpected(df, n) ==
    LET full == SelectSeq(df.rows, LAMBDA row : \E c \in DOMAIN row.cells : row.cells[c] # Null)
    IN  [r \in DOMAIN full |-> [cells |-> Resized(full[r].cells, n), src |-> full[r].src]]
NormalizedWidth ==
    norm.pc = "returned"
    => /\ Len(norm.normalized) = Len(NormKept)
       /\ \A j \in DOMAIN norm.normalized :
            /\ norm.normalized[j].columns = norm.base_columns
            /\ \A r \in DOMAIN norm.normalized[j].rows :
                 Len(norm.normalized[j].rows[r].cells) = Len(norm.base_columns)
            /\ norm.normalized[j].rows
                 = NormExpected(norm.dataframes[NormKept[j]], Len(norm.base_columns))

\* A wider and a narrower table were both kept, and a fully-empty row removed
NormalizedWidthWitness ==
    /\ norm.pc = "returned"
    /\ Len(norm.base_columns) = 2
    /\ Len(norm.normalized) = 2
    /\ \E i, j \in DOMAIN norm.dataframes :
         /\ Len(norm.dataframes[i].columns) = 1
         /\ Len(norm.dataframes[j].columns) = 3
         /\ Len(norm.dataframes[j].rows) > Len(norm.normalized[j].rows)

FileDataRows(ext) ==
    [i \in DOMAIN grouped[ext] |-> Cardinality(DataLines(grouped[ext][i], skip_rows))]
RowCountAdditive ==
    \A ext \in Exts :
        EndedOk(ext) => results[ext].rows = SumSeq(FileDataRows(ext))

\* Two files, a header row that is not counted, and a fully-empty data row
RowCountAdditiveWitness ==
    \E ext \in Exts :
        /\ EndedOk(ext)
        /\ skip_rows = 1
        /\ Len(grouped[ext]) = 2
        /\ results[ext].rows >= 1
        /\ Len(locals[ext].final_df.rows) > results[ext].rows
        /\ \E i \in DOMAIN grouped[ext] :
             \E r \in (skip_rows + 1)..Len(grouped[ext][i].content.kinds) :
                 grouped[ext][i].content.kinds[r].fill = "blank"

\* C5: in the merged body the rows of one file keep the order they had in
\* the file, and every row of a file precedes every row of a file with a
\* greater name, whatever the order of the upload.
BodyOrigin(ext) ==
    [p \in DOMAIN locals[ext].combined.rows |-> locals[ext].combined.rows[p].src]
BodyInNameOrder ==
    \A ext \in Exts :
        EndedOk(ext)
        => \A p, q \in DOMAIN BodyOrigin(ext) :
             LET a == BodyOrigin(ext)[p]
                 b == BodyOrigin(ext)[q]
             IN  /\ (OriginFile(a) = OriginFile(b) /\ OriginLine(a) < OriginLine(b)) => p < q
                 /\ (FileOfTag(ext, OriginFile(a)).name < FileOfTag(ext, OriginFile(b)).name)
                        => p < q

\* The file uploaded first has the greater name and two rows in the body
BodyInNameOrderWitness ==
    \E ext \in Exts :
        /\ EndedOk(ext)
        /\ Len(grouped[ext]) = 2
        /\ grouped[ext][1].name > grouped[ext][2].name
        /\ Len(BodyOrigin(ext)) = 3
        /\ OriginFile(BodyOrigin(ext)[1]) = 2
        /\ OriginFile(BodyOrigin(ext)[2]) = 1
        /\ OriginFile(BodyOrigin(ext)[3]) = 1

\* C6: a non-empty group of readable files none of which has a data row that
\* is not fully empty after skip_rows lines ends with an entry of status
\* empty that has a message and neither output bytes nor a file name, and
\* never with an exception.
AllEmptyGroup(ext) ==
    /\ grouped[ext] # <<>>
    /\ \A i \in DOMAIN grouped[ext] :
         WellFormed(grouped[ext][i]) /\ DataLines(grouped[ext][i], skip_rows) = {}
EmptyGroupIsEmpty ==
    \A ext \in Exts :
        (Finished /\ AllEmptyGroup(ext))
        => /\ pc = "returned"
           /\ Processed(ext)
           /\ results[ext].status = "empty"
           /\ "message" \in DOMAIN results[ext]
           /\ DOMAIN results[ext] \cap {"bytes", "file_name"} = {}

\* C7: a group whose first file in name order has no data row after
\* skip_rows lines, so that its probe finds zero columns, never ends with
\* status ok, whatever the later files hold.
ProbeFindsNoColumn(ext) ==
    /\ grouped[ext] # <<>>
    /\ DataLines(FirstSorted(ext), skip_rows) = {}
    /\ LET probe == get_base_columns_from_first_file(FirstSorted(ext), skip_rows)
       IN  IF probe.ok THEN probe.columns = <<>> ELSE FALSE
ZeroColumnProbeNeverOk ==
    \A ext \in Exts : ProbeFindsNoColumn(ext) => ~EndedOk(ext)

\* C8: two invocations given the same (name, content) pairs and the same
\* skip_rows, the files listed in another order, give byte-identical output
\* for the group.
Earlier == history[1].outcome
EarlierOk(ext) ==
    /\ history # <<>>
    /\ Earlier.kind = "returned"
    /\ ext \in DOMAIN Earlier.results
    /\ Earlier.results[ext].status = "ok"
ReorderedSameBytes ==
    \A ext \in Exts :
        (Finished /\ EarlierOk(ext) /\ history[1].relation = "reordered")
        => /\ EndedOk(ext)
           /\ results[ext].bytes = Earlier.results[ext].bytes

\* C9: when the files of a group are renamed, contents and skip_rows
\* unchanged, a merge that ended ok with n rows ends ok with n rows again.
RenamedSameRows ==
    \A ext \in Exts :
        (Finished /\ EarlierOk(ext) /\ history[1].relation = "renamed")
        => /\ EndedOk(ext)
           /\ results[ext].rows = Earlier.results[ext].rows

\* C10: _read_csv_with_encoding attempts utf-8, gbk, gb2312, utf-8-sig,
\* latin1 in this order; it returns the table of the first encoding that
\* decodes and parses and attempts none after it; it raises only after all
\* five have failed, with the failure of latin1.
ClaimedOrder == <<"utf-8", "gbk", "gb2312", "utf-8-sig", "latin1">>
Reads(e) == pd_read_csv(csv.content, e, csv.kw)
FirstSuccess ==
    {i \in DOMAIN ClaimedOrder :
        Reads(ClaimedOrder[i]).ok /\ \A j \in 1..(i - 1) : ~Reads(ClaimedOrder[j]).ok}
EncodingsInOrder ==
    csv.pc # "idle"
    => /\ csv.tried = Take(ClaimedOrder, Len(csv.tried))
       /\ csv.pc = "returned"
            => \E i \in FirstSuccess :
                 /\ csv.tried = Take(ClaimedOrder, i)
                 /\ csv.out = Reads(ClaimedOrder[i])
       /\ csv.pc = "raised"
            => /\ FirstSuccess = {}
               /\ csv.tried = ClaimedOrder
               /\ ~csv.out.ok
               /\ csv.out.err.detail = Reads("latin1").err

\* A table was returned after an earlier encoding had failed
EncodingsInOrderWitness ==
    /\ csv.pc = "returned"
    /\ Len(csv.tried) > 1
    /\ csv.out.df.rows # <<>>

====
